---- MODULE Spec2Model ----
(***************************************************************************)
(* Authentication / session-lifecycle core of the Modular MVC boilerplate: *)
(* AuthService (signUp, login, refreshAccessToken) over UserRepository,    *)
(* JwtAdapter, the bcrypt hasher and the uuid refresh-token generator.     *)
(*                                                                         *)
(* Every request is a process.  A request step is one persistence call     *)
(* together with the synchronous code that follows it up to the next       *)
(* persistence call (the code between two awaits touches only locals of    *)
(* the request); the first step of a request starts with its arrival.      *)
(* Steps of different requests interleave freely.                          *)
(***************************************************************************)
EXTENDS Integers, FiniteSets, Sequences, TLC

\* ------------------------------------------------------------------ bounds
MaxTime == 2
MaxTokens == 3

\* two requests are served concurrently
Requests == {1, 2}
Emails == {"a@x.com", "b@x.com"}
\* accounts are created with the first password; the second one is what a
\* login gets wrong
Passwords == {"p1", "p2"}
SignUpPasswords == {"p1"}
Names == {"A"}

\* ----------------------------------------------------------- configuration
\* process.env.REFRESH_EXPIRES and process.env.JWT_EXPIRE_IN, in clock ticks
REFRESH_EXPIRES == 1
JWT_EXPIRE_IN == 1
RESET_PASSWORD_JWT_EXPIRE_IN == 2
JWT_SECRET == "server_secret"
FRONTEND_URL == "https://frontend"
MaxLinks == 1
Salts == 1..(Cardinality(Emails) + Cardinality(Requests) + MaxLinks + 1)

VARIABLES
    users,        \* rows of the User table
    nextUserId,   \* autoincrement of User.id
    tokens,       \* rows of the RefreshToken table
    nextTokenId,  \* autoincrement of RefreshToken.id
    uuid,         \* number of refresh tokens generated so far
    now,          \* the clock read by new Date() / Date.now()
    outbox,       \* the reset links written by console.log
    req           \* the requests in flight: operation, position, locals

vars == <<users, nextUserId, tokens, nextTokenId, uuid, now, outbox, req>>

NULL == [null |-> TRUE]
Idle == [op |-> "idle", pc |-> "idle"]

\* ------------------------------------------------------------------ errors
HttpError(name, statusCode, message) ==
    [name |-> name, statusCode |-> statusCode, message |-> message]

BadRequestError(message) == HttpError("BadRequestError", 400, message)

\* message || 'Unauthorized'
UnauthorizedError(message) ==
    HttpError("UnauthorizedError", 401,
              IF message = "" THEN "Unauthorized" ELSE message)

NotFoundError(message) == HttpError("NotFoundError", 404, message)

\* what prisma throws: P2002 for a unique constraint, P2025 when the row
\* of a delete does not exist
PrismaError(code) == [name |-> "PrismaClientKnownRequestError", code |-> code]

Throw(error) == [ok |-> FALSE, error |-> error]
Return(value) == [ok |-> TRUE, value |-> value]

\* ------------------------------------------------------------ cryptography
\* bcrypt: every hash takes a random salt of its own, so a digest differs
\* from the plaintext and from every digest made before it; compare
\* recognises the digests of a value under any salt.  The random salt is
\* represented by the least salt that no digest still held anywhere (a user
\* row, a request in flight, the secret of an issued reset token) uses.
\* hasher.hash reads no shared state: the step that ends in the write of the
\* digest is the step that computes it.
Digests ==
    [salt \in Salts |->
        [value \in Passwords |-> "$2b$" \o ToString(salt) \o "$" \o value]]
HashWith(salt, value) == Digests[salt][value]

\* process.env.JWT_SECRET + user.password, for everything the password
\* column can hold
Storable == Passwords \cup {Digests[salt][value] :
                               salt \in Salts, value \in Passwords}
SecretOf == [password \in Storable |-> JWT_SECRET \o password]
Held ==
    {u.password : u \in users}
    \cup {req[r].user.password :
            r \in {q \in Requests :
                     req[q].pc \in {"login_saveRefreshToken", "reset_update"}}}
HeldSecrets == {link.token.secret : link \in outbox}
genSalt ==
    LET held    == Held
        secrets == HeldSecrets
        free    == {salt \in Salts :
                      \A value \in Passwords :
                         /\ HashWith(salt, value) \notin held
                         /\ SecretOf[HashWith(salt, value)] \notin secrets}
    IN  CHOOSE salt \in free : \A other \in free : salt <= other
Hash(value) == HashWith(genSalt, value)
Compare(value, valueToCompare) ==
    \E salt \in Salts : valueToCompare = HashWith(salt, value)

\* encrypt that always takes the default lifetime
encrypt_ignoresExpiresIn(data, expiresIn, secret) ==
    [payload |-> data,
     secret  |-> IF secret = "" THEN JWT_SECRET ELSE secret,
     signed  |-> [payload |-> data, exp |-> now + JWT_EXPIRE_IN],
     iat     |-> now,
     exp     |-> now + JWT_EXPIRE_IN]

\* JwtAdapter.encrypt: expiresIn = 0 and secret = "" stand for an argument
\* that was not passed (both are tested for truthiness).  A token carries its
\* claims in the clear (payload, iat, exp) and a signature, which is what the
\* secret signed: the claims as they were at signing time.
encrypt(data, expiresIn, secret) ==
    LET exp == now + (IF expiresIn = 0 THEN JWT_EXPIRE_IN ELSE expiresIn)
    IN  [payload |-> data,
         secret  |-> IF secret = "" THEN JWT_SECRET ELSE secret,
         signed  |-> [payload |-> data, exp |-> exp],
         iat     |-> now,
         exp     |-> exp]

\* decrypt that accepts a signature made with any secret
decrypt_anySecret(token, secret) ==
    /\ "signed" \in DOMAIN token
    /\ token.signed = [payload |-> token.payload, exp |-> token.exp]
    /\ now < token.exp

\* decrypt that does not look at exp
decrypt_ignoresExpiry(token, secret) ==
    /\ "signed" \in DOMAIN token
    /\ token.signed = [payload |-> token.payload, exp |-> token.exp]
    /\ token.secret = (IF secret = "" THEN JWT_SECRET ELSE secret)

\* JwtAdapter.decrypt: jwt.verify returns for a well-formed token whose
\* signature was made with the secret over the claims it carries and whose
\* exp is still ahead, and throws otherwise
decrypt(token, secret) ==
    /\ "signed" \in DOMAIN token
    /\ token.signed = [payload |-> token.payload, exp |-> token.exp]
    /\ token.secret = (IF secret = "" THEN JWT_SECRET ELSE secret)
    /\ now < token.exp

\* JwtAdapter.decode: jwt.decode gives the payload without verifying
\* anything, null for a string that is not a token
decode(token) == token.payload

\* RefreshTokenGeneratorImpl.generate: uuidv4(), a value never seen before
generate == uuid + 1

\* -------------------------------------------------------------- repository
getByEmail(email) ==
    IF \E u \in users : u.email = email
    THEN CHOOSE u \in users : u.email = email
    ELSE NULL

\* prisma.user.findUnique({ where: { id } })
getById(id) ==
    IF \E u \in users : u.id = id
    THEN CHOOSE u \in users : u.id = id
    ELSE NULL

\* prisma.user.update({ where: { id }, data })
update(id, data) ==
    {IF u.id = id THEN data @@ u ELSE u : u \in users}

\* dataToBd without the removal of confirmPassword
dataToBd_keepsConfirmPassword(data) == data

\* const { confirmPassword, ...dataToBd } = data
dataToBd(data) ==
    [email |-> data.email, password |-> data.password, name |-> data.name]

\* the row prisma.user.create inserts
createdUser(data) ==
    [id |-> nextUserId] @@ dataToBd(data)

\* create that leaves the new row alone in the table
create_replacesTable(row) == {row}

\* the table after prisma.user.create
create(row) == users \cup {row}

\* emailTaken for a User table without the unique column
emailTaken_noConstraint(email) == FALSE

\* User.email is a unique column (it is the key of findUnique)
emailTaken(email) == \E u \in users : u.email = email

\* the row prisma.refreshToken.create inserts
\* savedRefreshToken without the lifetime
savedRefreshToken_noLifetime(refreshToken, userId) ==
    [id |-> nextTokenId, token |-> refreshToken, userId |-> userId,
     expiresAt |-> now, revoked |-> FALSE, createdAt |-> now]

savedRefreshToken(refreshToken, userId) ==
    [id        |-> nextTokenId,
     token     |-> refreshToken,
     userId    |-> userId,
     expiresAt |-> now + REFRESH_EXPIRES,
     revoked   |-> FALSE,
     createdAt |-> now]

\* saveRefreshToken revoking the records the user already has
saveRefreshToken_singleSession(refreshToken, userId) ==
    {IF t.userId = userId THEN [t EXCEPT !.revoked = TRUE] ELSE t : t \in tokens}
        \cup {savedRefreshToken(refreshToken, userId)}

\* the table after prisma.refreshToken.create
saveRefreshToken(refreshToken, userId) ==
    tokens \cup {savedRefreshToken(refreshToken, userId)}

userOf(userId) == CHOOSE u \in users : u.id = userId

getRefreshTokenWithUser(token) ==
    IF \E t \in tokens : t.token = token
    THEN LET t == CHOOSE t \in tokens : t.token = token
         IN  t @@ [user |-> userOf(t.userId)]
    ELSE NULL

deleteRefreshToken(id) == {t \in tokens : t.id # id}

\* revokeAllUserRefreshTokens without the userId in its where clause
revokeAllUserRefreshTokens_everyone(userId) ==
    {[t EXCEPT !.revoked = TRUE] : t \in tokens}

\* revokeAllUserRefreshTokens flipping the flag of the user's records
revokeAllUserRefreshTokens_toggles(userId) ==
    {IF t.userId = userId THEN [t EXCEPT !.revoked = ~t.revoked] ELSE t
        : t \in tokens}

revokeAllUserRefreshTokens(userId) ==
    {IF t.userId = userId /\ ~t.revoked THEN [t EXCEPT !.revoked = TRUE] ELSE t
        : t \in tokens}

\* --------------------------------------------------------------- requests
\* requests that will still call the refresh-token generator
Generating == {r \in Requests : req[r].pc = "refresh_revoke"}

\* a request is served by the lowest free slot; the outcomes of finished
\* requests are handed over before the next request is taken
FreeSlot(r) ==
    /\ req[r].pc = "idle"
    /\ \A q \in Requests : q < r => req[q].pc # "idle"
    /\ \A q \in Requests : req[q].pc # "done"

\* A call that ends in its first step has read what is stored and written
\* nothing, and no call in flight has written anything yet either (every
\* operation writes in its last step).  Its outcome is therefore the one it
\* has when no other call is in flight, and it is taken only then.
Quiescent == \A q \in Requests : req[q].pc = "idle"
EndsAtOnce(r) == req'[r].pc = "done" => Quiescent

Finish(op, data, result) ==
    [op |-> op, pc |-> "done", data |-> data, result |-> result]

Init ==
    /\ users = {}
    /\ nextUserId = 1
    /\ tokens = {}
    /\ nextTokenId = 1
    /\ uuid = 0
    /\ now = 0
    /\ outbox = {}
    /\ req = [r \in Requests |-> Idle]

\* ----------------------------------------------------------------- signUp
\* signUpCheck without the duplicate check
signUpCheck_noDuplicateCheck(data) ==
    [op |-> "signUp", pc |-> "signUp_create", data |-> data]

\* getByEmail and the duplicate check
signUpCheck(data) ==
    LET user == getByEmail(data.email)
    IN  IF user # NULL
        THEN Finish("signUp", data,
                    Throw(BadRequestError("Email is already in use")))
        ELSE [op |-> "signUp", pc |-> "signUp_create", data |-> data]

SignUpGetByEmail(r) ==
    /\ FreeSlot(r)
    /\ \E email \in Emails, password \in SignUpPasswords, name \in Names :
          req' = [req EXCEPT ![r] =
                    signUpCheck([email |-> email, password |-> password,
                                 confirmPassword |-> password,
                                 name |-> name])]
    /\ EndsAtOnce(r)
    /\ UNCHANGED <<users, nextUserId, tokens, nextTokenId, uuid, now, outbox>>

\* hasher.hash, userRepository.create({...data, password: hashedPassword})
\* and the return
SignUpCreate(r) ==
    /\ req[r].pc = "signUp_create"
    /\ LET hashedPassword == Hash(req[r].data.password)
           data == [req[r].data EXCEPT !.password = hashedPassword]
           row  == createdUser(data)
       IN  IF emailTaken(data.email)
           THEN /\ req' = [req EXCEPT ![r] =
                             Finish("signUp", req[r].data,
                                    Throw(PrismaError("P2002"))) @@
                             [hashedPassword |-> hashedPassword]]
                /\ UNCHANGED <<users, nextUserId>>
           ELSE /\ users' = create(row)
                /\ nextUserId' = nextUserId + 1
                /\ req' = [req EXCEPT ![r] =
                             Finish("signUp", req[r].data, Return(row)) @@
                             [hashedPassword |-> hashedPassword]]
    /\ UNCHANGED <<tokens, nextTokenId, uuid, now, outbox>>

\* ------------------------------------------------------------------ login
\* userToReturn without the removal of the password
userToReturn_keepsPassword(user) == user

\* const { password: pass, ...userToReturn } = user
userToReturn(user) == [id |-> user.id, email |-> user.email, name |-> user.name]

\* getByEmail, hashComparer.compare, encrypter.encrypt and generate
\* loginCheck that tells an unknown email from a wrong password
loginCheck_revealsUnknownEmail(data) ==
    LET user == getByEmail(data.email)
    IN  IF user = NULL
        THEN Finish("login", data, Throw(NotFoundError("User not found")))
        ELSE IF ~Compare(data.password, user.password)
        THEN Finish("login", data, Throw(UnauthorizedError("")))
        ELSE [op |-> "login", pc |-> "login_saveRefreshToken", data |-> data,
              user |-> user,
              accessToken |-> encrypt([id |-> user.id], 0, ""),
              refreshToken |-> generate]

\* getByEmail, the user check, hashComparer.compare, encrypter.encrypt and
\* refreshTokenGenerator.generate
loginCheck(data) ==
    LET user == getByEmail(data.email)
    IN  IF user = NULL
        THEN Finish("login", data, Throw(UnauthorizedError("")))
        ELSE IF ~Compare(data.password, user.password)
        THEN Finish("login", data, Throw(UnauthorizedError("")))
        ELSE [op |-> "login", pc |-> "login_saveRefreshToken", data |-> data,
              user |-> user,
              accessToken |-> encrypt([id |-> user.id], 0, ""),
              refreshToken |-> generate]

LoginGetByEmail(r) ==
    /\ FreeSlot(r)
    /\ uuid + Cardinality(Generating) < MaxTokens
    /\ \E email \in Emails, password \in Passwords :
          req' = [req EXCEPT ![r] =
                    loginCheck([email |-> email, password |-> password])]
    /\ EndsAtOnce(r)
    /\ uuid' = IF req'[r].pc = "done" THEN uuid ELSE uuid + 1
    /\ UNCHANGED <<users, nextUserId, tokens, nextTokenId, now, outbox>>

\* LoginSaveRefreshToken holding a lock that no other call in flight may hold
LoginSaveRefreshToken_exclusive(r) ==
    /\ req[r].pc = "login_saveRefreshToken"
    /\ \A q \in Requests \ {r} : req[q].pc \in {"idle", "done"}
    /\ tokens' = saveRefreshToken(req[r].refreshToken, req[r].user.id)
    /\ nextTokenId' = nextTokenId + 1
    /\ req' = [req EXCEPT ![r] =
                 Finish("login", req[r].data,
                        Return([accessToken  |-> req[r].accessToken,
                                refreshToken |-> req[r].refreshToken,
                                user |-> userToReturn(req[r].user)]))]
    /\ UNCHANGED <<users, nextUserId, uuid, now, outbox>>

\* userRepository.saveRefreshToken(refreshToken, user.id) and the return
LoginSaveRefreshToken(r) ==
    /\ req[r].pc = "login_saveRefreshToken"
    /\ tokens' = saveRefreshToken(req[r].refreshToken, req[r].user.id)
    /\ nextTokenId' = nextTokenId + 1
    /\ req' = [req EXCEPT ![r] =
                 Finish("login", req[r].data,
                        Return([accessToken  |-> req[r].accessToken,
                                refreshToken |-> req[r].refreshToken,
                                user |-> userToReturn(req[r].user)]))]
    /\ UNCHANGED <<users, nextUserId, uuid, now, outbox>>

\* ------------------------------------------------ login, collaborators fail
\* what a collaborator throws when it fails: an Error of its own
Failure(thrower) == [name |-> "Error", thrower |-> thrower]

\* login that answers every failure of a collaborator with Unauthorized
loginRethrows_asUnauthorized(error) == Throw(UnauthorizedError(""))

\* login has no try/catch: what a collaborator throws is what login throws
loginRethrows(error) == Throw(error)

\* loginCheck when the collaborator named by thrower throws if it is called:
\* the calls are made in the order getByEmail, hashComparer.compare,
\* encrypter.encrypt, refreshTokenGenerator.generate
loginCheckFailing(data, thrower) ==
    LET user   == getByEmail(data.email)
        thrown == Failure(thrower)
        failed == Finish("login", data, loginRethrows(thrown)) @@
                  [thrown |-> thrown]
    IN  IF thrower = "getByEmail" THEN failed
        ELSE IF user = NULL THEN loginCheck(data)
        ELSE IF thrower = "hashComparer" THEN failed
        ELSE IF ~Compare(data.password, user.password) THEN loginCheck(data)
        ELSE failed

LoginGetByEmailFails(r) ==
    /\ FreeSlot(r)
    /\ Quiescent
    /\ \E email \in Emails, password \in Passwords,
          thrower \in {"getByEmail", "hashComparer", "encrypter",
                       "refreshTokenGenerator"} :
          req' = [req EXCEPT ![r] =
                    loginCheckFailing([email |-> email,
                                       password |-> password], thrower)]
    /\ UNCHANGED <<users, nextUserId, tokens, nextTokenId, uuid, now, outbox>>

\* userRepository.saveRefreshToken throws: prisma wrote no record
LoginSaveRefreshTokenFails(r) ==
    /\ req[r].pc = "login_saveRefreshToken"
    /\ LET thrown == Failure("saveRefreshToken")
       IN  req' = [req EXCEPT ![r] =
                     Finish("login", req[r].data, loginRethrows(thrown)) @@
                     [thrown |-> thrown, refreshToken |-> req[r].refreshToken]]
    /\ UNCHANGED <<users, nextUserId, tokens, nextTokenId, uuid, now, outbox>>

\* ----------------------------------------------------- refreshAccessToken
\* refreshVerdict without the test of the revoked flag
refreshVerdict_ignoresRevoked(storedToken) ==
    IF storedToken = NULL THEN "unauthorized"
    ELSE IF storedToken.expiresAt < now THEN "expired"
    ELSE "valid"

\* refreshVerdict with the expiry check ahead of the revoked check
refreshVerdict_expiryFirst(storedToken) ==
    IF storedToken = NULL THEN "unauthorized"
    ELSE IF storedToken.expiresAt < now THEN "expired"
    ELSE IF storedToken.revoked THEN "unauthorized"
    ELSE "valid"

\* the two checks refreshAccessToken makes on the stored record, in order
refreshVerdict(storedToken) ==
    IF storedToken = NULL \/ storedToken.revoked THEN "unauthorized"
    ELSE IF storedToken.expiresAt < now THEN "expired"
    ELSE "valid"

\* refreshCheck rejecting an expired record without deleting it
refreshCheck_noCleanup(token) ==
    LET storedToken == getRefreshTokenWithUser(token)
        verdict == refreshVerdict(storedToken)
    IN  IF verdict \in {"unauthorized", "expired"}
        THEN Finish("refresh", token, Throw(UnauthorizedError(""))) @@
             [storedToken |-> storedToken]
        ELSE [op |-> "refresh", pc |-> "refresh_revoke", data |-> token,
              storedToken |-> storedToken]

\* getRefreshTokenWithUser and what follows up to the next persistence call
refreshCheck(token) ==
    LET storedToken == getRefreshTokenWithUser(token)
        verdict == refreshVerdict(storedToken)
    IN  IF verdict = "unauthorized"
        THEN Finish("refresh", token, Throw(UnauthorizedError(""))) @@
             [storedToken |-> storedToken]
        ELSE IF verdict = "expired"
        THEN [op |-> "refresh", pc |-> "refresh_delete", data |-> token,
              storedToken |-> storedToken]
        ELSE [op |-> "refresh", pc |-> "refresh_revoke", data |-> token,
              storedToken |-> storedToken]

RefreshGet(r) ==
    /\ FreeSlot(r)
    /\ uuid + Cardinality(Generating) < MaxTokens
    /\ \E token \in 0..uuid :
          req' = [req EXCEPT ![r] = refreshCheck(token)]
    /\ EndsAtOnce(r)
    /\ UNCHANGED <<users, nextUserId, tokens, nextTokenId, uuid, now, outbox>>

\* userRepository.deleteRefreshToken(storedToken.id) and the throw
RefreshDelete(r) ==
    /\ req[r].pc = "refresh_delete"
    /\ LET storedToken == req[r].storedToken
       IN  IF \E t \in tokens : t.id = storedToken.id
           THEN /\ tokens' = deleteRefreshToken(storedToken.id)
                /\ req' = [req EXCEPT ![r] =
                             Finish("refresh", req[r].data,
                                    Throw(UnauthorizedError(""))) @@
                             [storedToken |-> storedToken]]
           ELSE /\ tokens' = tokens
                /\ req' = [req EXCEPT ![r] =
                             Finish("refresh", req[r].data,
                                    Throw(PrismaError("P2025"))) @@
                             [storedToken |-> storedToken]]
    /\ UNCHANGED <<users, nextUserId, nextTokenId, uuid, now, outbox>>

\* what refreshAccessToken does once the stored record has passed the checks:
\* the rows after the write and the pair it returns
\* refreshPayload naming the record instead of its owner
refreshPayload_recordId(storedToken) == [id |-> storedToken.id]

refreshPayload(storedToken) == [id |-> storedToken.user.id]

\* refreshRotate revoking the presented record only
refreshRotate_revokesOnlyUsed(storedToken) ==
    [tokens |-> {IF t.id = storedToken.id THEN [t EXCEPT !.revoked = TRUE] ELSE t
                    : t \in tokens},
     value  |-> [accessToken  |-> encrypt(refreshPayload(storedToken), 0, ""),
                 refreshToken |-> generate]]

refreshRotate(storedToken) ==
    [tokens |-> revokeAllUserRefreshTokens(storedToken.user.id),
     value  |-> [accessToken  |-> encrypt(refreshPayload(storedToken), 0, ""),
                 refreshToken |-> generate]]

RefreshRevoke(r) ==
    /\ req[r].pc = "refresh_revoke"
    /\ LET storedToken == req[r].storedToken
           out == refreshRotate(storedToken)
       IN  /\ tokens' = out.tokens
           /\ req' = [req EXCEPT ![r] =
                        Finish("refresh", req[r].data, Return(out.value)) @@
                        [storedToken |-> storedToken]]
    /\ uuid' = uuid + 1
    /\ UNCHANGED <<users, nextUserId, nextTokenId, now, outbox>>

\* ------------------------------------- refreshAccessToken, collaborators fail
\* refreshFails undoing the revocation before it throws
refreshFails_rollsBack(storedToken, thrower) ==
    [tokens |-> tokens,
     result |-> Throw(Failure(thrower))]

\* revokeAllUserRefreshTokens has committed and then the encrypter or the
\* refresh-token generator throws: refreshAccessToken has no try/catch and no
\* transaction, so the rows stay as written and the error is what it throws
refreshFails(storedToken, thrower) ==
    [tokens |-> revokeAllUserRefreshTokens(storedToken.user.id),
     result |-> Throw(Failure(thrower))]

RefreshRevokeFails(r) ==
    /\ req[r].pc = "refresh_revoke"
    /\ \E thrower \in {"encrypter", "refreshTokenGenerator"} :
          LET storedToken == req[r].storedToken
              out == refreshFails(storedToken, thrower)
          IN  /\ tokens' = out.tokens
              /\ req' = [req EXCEPT ![r] =
                           Finish("refresh", req[r].data, out.result) @@
                           [storedToken |-> storedToken]]
    /\ UNCHANGED <<users, nextUserId, nextTokenId, uuid, now, outbox>>

\* ---------------------------------------------------- requestPasswordReset
\* the secret of a reset token: process.env.JWT_SECRET + user.password
resetSecret_serverOnly(user) == JWT_SECRET
resetSecret(user) == SecretOf[user.password]

ResetUrl == FRONTEND_URL \o "/reset-password?token="
resetLink(token) == [url |-> ResetUrl, token |-> token]

\* requestPasswordReset that answers an unknown email like a known one
resetRequest_silentOnUnknown(email) ==
    LET user == getByEmail(email)
    IN  IF user = NULL
        THEN [result |-> Return(NULL), logged |-> {}]
        ELSE [result |-> Return(NULL),
              logged |-> {resetLink(encrypt([email |-> user.email,
                                             id |-> user.id],
                                            RESET_PASSWORD_JWT_EXPIRE_IN,
                                            resetSecret(user)))}]

\* the whole of requestPasswordReset: its outcome and what it logs
resetRequest(email) ==
    LET user == getByEmail(email)
    IN  IF user = NULL
        THEN [result |-> Throw(NotFoundError("User not found")),
              logged |-> {}]
        ELSE [result |-> Return(NULL),
              logged |-> {resetLink(encrypt([email |-> user.email,
                                             id |-> user.id],
                                            RESET_PASSWORD_JWT_EXPIRE_IN,
                                            resetSecret(user)))}]

RequestPasswordReset(r) ==
    /\ FreeSlot(r)
    /\ \E email \in Emails :
          LET out == resetRequest(email)
          IN  /\ Cardinality(outbox \cup out.logged) <= MaxLinks
              /\ outbox' = outbox \cup out.logged
              /\ req' = [req EXCEPT ![r] =
                           Finish("requestPasswordReset", email, out.result)]
              /\ out.logged = {} => Quiescent
    /\ UNCHANGED <<users, nextUserId, tokens, nextTokenId, uuid, now>>

\* ----------------------------------------------------------- resetPassword
\* what a caller of resetPassword can present: the tokens of the links that
\* were logged, those tokens with the id or the exp of the payload rewritten,
\* tokens signed with a secret of the caller's own, a token whose payload
\* has no id, a string that is not a token, and access tokens
UserIds == 1..(Cardinality(Emails) + 1)
Issued == {link.token : link \in outbox}
Tampered ==
    {[t EXCEPT !.payload.id = id] : t \in Issued, id \in UserIds}
    \cup {[t EXCEPT !.exp = MaxTime + 2] : t \in Issued}
Forged ==
    {[payload |-> [email |-> "a@x.com", id |-> id], secret |-> "guess",
      signed |-> [payload |-> [email |-> "a@x.com", id |-> id],
                  exp |-> MaxTime + 2],
      iat |-> 0, exp |-> MaxTime + 2] : id \in UserIds}
NoId ==
    [payload |-> [email |-> "a@x.com"], secret |-> JWT_SECRET,
     signed |-> [payload |-> [email |-> "a@x.com"], exp |-> MaxTime + 2],
     iat |-> 0, exp |-> MaxTime + 2]
NotAToken == [payload |-> NULL]

\* the access token encrypter.encrypt({id}) makes at time iat: login and
\* refreshAccessToken sign it with the server secret and the default lifetime
accessTokenAt(id, iat) ==
    [payload |-> [id |-> id],
     secret  |-> JWT_SECRET,
     signed  |-> [payload |-> [id |-> id], exp |-> iat + JWT_EXPIRE_IN],
     iat     |-> iat,
     exp     |-> iat + JWT_EXPIRE_IN]

\* the access tokens of the users who have logged in: the one each login
\* returned with its refresh-token record and the ones a refresh can have
\* returned since
AccessTokens ==
    UNION {{accessTokenAt(t.userId, iat) : iat \in t.createdAt..now}
              : t \in tokens}

Presentable ==
    Issued \cup Tampered \cup Forged \cup {NoId, NotAToken} \cup AccessTokens

\* decoded?.id
idOf(decoded) == IF "id" \in DOMAIN decoded THEN decoded.id ELSE 0

\* resetCheck that takes the decoded payload at its word
resetCheck_trustsDecoded(data) ==
    LET decoded == decode(data.token)
        user    == getById(idOf(decoded))
    IN  IF idOf(decoded) = 0
        THEN Finish("resetPassword", data,
                    Throw(UnauthorizedError("Invalid token")))
        ELSE IF user = NULL
        THEN Finish("resetPassword", data,
                    Throw(NotFoundError("User not found")))
        ELSE [op |-> "resetPassword", pc |-> "reset_update", data |-> data,
              user |-> user]

\* resetCheck that verifies the signature before it looks the user up
resetCheck_verifiesFirst(data) ==
    LET decoded == decode(data.token)
        user    == getById(idOf(decoded))
    IN  IF idOf(decoded) = 0
        THEN Finish("resetPassword", data,
                    Throw(UnauthorizedError("Invalid token")))
        ELSE IF user = NULL \/ ~decrypt(data.token, resetSecret(user))
        THEN Finish("resetPassword", data,
                    Throw(UnauthorizedError("Invalid token")))
        ELSE [op |-> "resetPassword", pc |-> "reset_update", data |-> data,
              user |-> user]

\* decode, the id check, getById, the user check and decrypt
resetCheck(data) ==
    LET decoded == decode(data.token)
        user    == getById(idOf(decoded))
    IN  IF idOf(decoded) = 0
        THEN Finish("resetPassword", data,
                    Throw(UnauthorizedError("Invalid token")))
        ELSE IF user = NULL
        THEN Finish("resetPassword", data,
                    Throw(NotFoundError("User not found")))
        ELSE IF ~decrypt(data.token, resetSecret(user))
        THEN Finish("resetPassword", data,
                    Throw(UnauthorizedError("Invalid token")))
        ELSE [op |-> "resetPassword", pc |-> "reset_update", data |-> data,
              user |-> user]

ResetGetById(r) ==
    /\ FreeSlot(r)
    /\ \E token \in Presentable, newPassword \in Passwords :
          req' = [req EXCEPT ![r] =
                    resetCheck([token |-> token,
                                newPassword |-> newPassword])]
    /\ EndsAtOnce(r)
    /\ UNCHANGED <<users, nextUserId, tokens, nextTokenId, uuid, now, outbox>>

\* resetUpdate that stores the new password as it came
resetUpdate_storesPlaintext(user, newPassword) ==
    update(user.id, [password |-> newPassword])

\* hasher.hash(newPassword) and userRepository.update
resetUpdate(user, newPassword) ==
    update(user.id, [password |-> Hash(newPassword)])

\* resetPassword closing the user's sessions along with the password change
resetWrite_revokesSessions(user, newPassword) ==
    [users  |-> resetUpdate(user, newPassword),
     tokens |-> revokeAllUserRefreshTokens(user.id)]

\* the store after resetPassword's write: userRepository.update is its only
\* persistence call
resetWrite(user, newPassword) ==
    [users  |-> resetUpdate(user, newPassword),
     tokens |-> tokens]

ResetUpdate(r) ==
    /\ req[r].pc = "reset_update"
    /\ LET out == resetWrite(req[r].user, req[r].data.newPassword)
       IN  /\ users' = out.users
           /\ tokens' = out.tokens
    /\ req' = [req EXCEPT ![r] =
                 Finish("resetPassword", req[r].data, Return(NULL)) @@
                 [user |-> req[r].user]]
    /\ UNCHANGED <<nextUserId, nextTokenId, uuid, now, outbox>>

\* ------------------------------------------------------------- controller
\* res.status(201) in signUp, res.status(200) in the other handlers
successStatus(op) == IF op = "signUp" THEN 201 ELSE 200

\* what the handler gives to res.json
successBody(op, value) ==
    CASE op = "signUp" -> [message |-> "Usuario criado com sucesso!"]
      [] op = "requestPasswordReset" ->
             [message |-> "Email de recuperacao enviado com sucesso!"]
      [] op = "resetPassword" -> [message |-> "Senha alterada com sucesso!"]
      [] OTHER -> value

\* a handler that has ended: the calls it made to its AuthService method, the
\* responses it sent and the errors it passed to next
Handled(op, body, calls, sent, next) ==
    [op |-> op, pc |-> "handled", data |-> body,
     calls |-> calls, sent |-> sent, next |-> next]

\* the catch block of a handler: next(error)
catchNext(op, body, calls, error) ==
    Handled(op, body, calls, <<>>, <<error>>)

\* settle that answers a rejection itself and passes it on as well
settle_respondsAndPassesOn(op, body, result) ==
    IF result.ok
    THEN Handled(op, body, 1,
                 <<[status |-> successStatus(op),
                    json   |-> successBody(op, result.value)]>>, <<>>)
    ELSE Handled(op, body, 1,
                 <<[status |-> 500, json |-> result.error]>>, <<result.error>>)

\* the handler after its await: res.status().json() when the service
\* resolved, the catch block when it rejected
settle(op, body, result) ==
    IF result.ok
    THEN Handled(op, body, 1,
                 <<[status |-> successStatus(op),
                    json   |-> successBody(op, result.value)]>>, <<>>)
    ELSE catchNext(op, body, 1, result.error)

\* signUp: fieldComparer.compare(data) throws or not, then authService.signUp
signUpHandler(data, comparerThrows) ==
    IF comparerThrows
    THEN catchNext("signUp", data, 0, Failure("fieldComparer"))
    ELSE signUpCheck(data)

ControllerSignUp(r) ==
    /\ FreeSlot(r)
    /\ \E email \in Emails, password \in SignUpPasswords, name \in Names,
          comparerThrows \in BOOLEAN :
          req' = [req EXCEPT ![r] =
                    signUpHandler([email |-> email, password |-> password,
                                   confirmPassword |-> password,
                                   name |-> name], comparerThrows)]
    /\ UNCHANGED <<users, nextUserId, tokens, nextTokenId, uuid, now, outbox>>

\* the empty string among the refresh tokens a body can hold
EmptyToken == -1

\* a body without a refreshToken: {}
NoBody == <<>>

\* refreshProvided that only looks for the field
refreshProvided_anyValue(body) == "refreshToken" \in DOMAIN body

\* !refreshToken is false: the field is there and is not the empty string
refreshProvided(body) ==
    "refreshToken" \in DOMAIN body /\ body.refreshToken # EmptyToken

\* refreshAccessToken: the check of the body, then
\* authService.refreshAccessToken(refreshToken)
refreshHandler(body) ==
    IF ~refreshProvided(body)
    THEN catchNext("refresh", body, 0,
                   BadRequestError("Refresh token not provided"))
    ELSE refreshCheck(body.refreshToken)

ControllerRefresh(r) ==
    /\ FreeSlot(r)
    /\ uuid + Cardinality(Generating) < MaxTokens
    /\ \/ req' = [req EXCEPT ![r] = refreshHandler(NoBody)]
       \/ \E token \in {EmptyToken} \cup 0..uuid :
             req' = [req EXCEPT ![r] =
                       refreshHandler([refreshToken |-> token])]
    /\ UNCHANGED <<users, nextUserId, tokens, nextTokenId, uuid, now, outbox>>

\* the service call of a handler has settled
HandlerSettles(r) ==
    /\ req[r].pc = "done"
    /\ req' = [req EXCEPT ![r] =
                 settle(req[r].op, req[r].data, req[r].result) @@
                 [result |-> req[r].result]]
    /\ UNCHANGED <<users, nextUserId, tokens, nextTokenId, uuid, now, outbox>>

\* the handler has returned and the slot is free
HandlerReturns(r) ==
    /\ req[r].pc = "handled"
    /\ req' = [req EXCEPT ![r] = Idle]
    /\ UNCHANGED <<users, nextUserId, tokens, nextTokenId, uuid, now, outbox>>

\* ------------------------------------------------------------ environment
\* the controller hands the outcome to res.json or next and the slot is free
Respond(r) ==
    /\ req[r].pc = "done"
    /\ req' = [req EXCEPT ![r] = Idle]
    /\ UNCHANGED <<users, nextUserId, tokens, nextTokenId, uuid, now, outbox>>

\* the clock advances; outcomes are handed over as soon as they exist
Tick ==
    /\ now < MaxTime
    /\ \A q \in Requests : req[q].pc # "done"
    /\ now' = now + 1
    /\ UNCHANGED <<users, nextUserId, tokens, nextTokenId, uuid, outbox, req>>

Next ==
    \/ \E r \in Requests : SignUpGetByEmail(r)
    \/ \E r \in Requests : SignUpCreate(r)
    \/ \E r \in Requests : LoginGetByEmail(r)
    \/ \E r \in Requests : LoginSaveRefreshToken(r)
    \/ \E r \in Requests : RefreshGet(r)
    \/ \E r \in Requests : RefreshDelete(r)
    \/ \E r \in Requests : RefreshRevoke(r)
    \/ \E r \in Requests : Respond(r)
    \/ Tick

Spec == Init /\ [][Next]_vars

\* signUp and login with collaborators of login that may throw
NextFail ==
    \/ \E r \in Requests : SignUpGetByEmail(r)
    \/ \E r \in Requests : SignUpCreate(r)
    \/ \E r \in Requests : LoginGetByEmail(r)
    \/ \E r \in Requests : LoginGetByEmailFails(r)
    \/ \E r \in Requests : LoginSaveRefreshToken(r)
    \/ \E r \in Requests : LoginSaveRefreshTokenFails(r)
    \/ \E r \in Requests : Respond(r)
    \/ Tick

SpecFail == Init /\ [][NextFail]_vars

\* the account operations: signUp, requestPasswordReset and resetPassword
NextReset ==
    \/ \E r \in Requests : SignUpGetByEmail(r)
    \/ \E r \in Requests : SignUpCreate(r)
    \/ \E r \in Requests : RequestPasswordReset(r)
    \/ \E r \in Requests : ResetGetById(r)
    \/ \E r \in Requests : ResetUpdate(r)
    \/ \E r \in Requests : Respond(r)
    \/ Tick

SpecReset == Init /\ [][NextReset]_vars

\* signUp, login and refreshAccessToken, one request at a time, with the
\* encrypter and the refresh-token generator of refreshAccessToken failing or
\* not
NextRefreshFail ==
    \/ \E r \in Requests : Quiescent /\ SignUpGetByEmail(r)
    \/ \E r \in Requests : SignUpCreate(r)
    \/ \E r \in Requests : Quiescent /\ LoginGetByEmail(r)
    \/ \E r \in Requests : LoginSaveRefreshToken(r)
    \/ \E r \in Requests : Quiescent /\ RefreshGet(r)
    \/ \E r \in Requests : RefreshDelete(r)
    \/ \E r \in Requests : RefreshRevoke(r)
    \/ \E r \in Requests : RefreshRevokeFails(r)
    \/ \E r \in Requests : Respond(r)
    \/ Tick

SpecRefreshFail == Init /\ [][NextRefreshFail]_vars

\* the five handlers of AuthController over the five operations, one request
\* at a time and within one instant
NextController ==
    \/ \E r \in Requests : Quiescent /\ ControllerSignUp(r)
    \/ \E r \in Requests : SignUpCreate(r)
    \/ \E r \in Requests : Quiescent /\ LoginGetByEmail(r)
    \/ \E r \in Requests : LoginSaveRefreshToken(r)
    \/ \E r \in Requests : Quiescent /\ ControllerRefresh(r)
    \/ \E r \in Requests : RefreshRevoke(r)
    \/ \E r \in Requests : Quiescent /\ RequestPasswordReset(r)
    \/ \E r \in Requests : Quiescent /\ ResetGetById(r)
    \/ \E r \in Requests : ResetUpdate(r)
    \/ \E r \in Requests : HandlerSettles(r)
    \/ \E r \in Requests : HandlerReturns(r)

SpecController == Init /\ [][NextController]_vars

\* the persistence call a request in flight is waiting for completes and
\* the request runs on to its next await or to its end
Continue(r) ==
    \/ SignUpCreate(r)
    \/ LoginSaveRefreshToken(r)
    \/ RefreshDelete(r)
    \/ RefreshRevoke(r)
    \/ ResetUpdate(r)

\* every collaborator call completes and the event loop resumes the request
\* that awaited it
Fairness == \A r \in Requests : WF_vars(Continue(r))

\* all five operations with two requests in flight, for one account
\* (a@x.com) and one new password; sessions and reset links are made at
\* time 0, and the clock runs between requests while no link is out
NextLive ==
    \/ \E r \in Requests :
          SignUpGetByEmail(r) /\ req'[r].data.email = "a@x.com"
    \/ \E r \in Requests : SignUpCreate(r)
    \/ \E r \in Requests : now = 0 /\ LoginGetByEmail(r)
    \/ \E r \in Requests : LoginSaveRefreshToken(r)
    \/ \E r \in Requests : RefreshGet(r)
    \/ \E r \in Requests : RefreshDelete(r)
    \/ \E r \in Requests : RefreshRevoke(r)
    \/ \E r \in Requests : now = 0 /\ RequestPasswordReset(r)
    \/ \E r \in Requests :
          ResetGetById(r) /\ req'[r].data.newPassword = "p1"
    \/ \E r \in Requests : ResetUpdate(r)
    \/ \E r \in Requests : Respond(r)
    \/ Quiescent /\ outbox = {} /\ Tick

SpecLive == Init /\ [][NextLive]_vars /\ Fairness

\* all five operations on one account store, one request at a time and within
\* one instant: sessions and password resets meet here
NextSession ==
    \/ \E r \in Requests : Quiescent /\ SignUpGetByEmail(r)
    \/ \E r \in Requests : SignUpCreate(r)
    \/ \E r \in Requests : Quiescent /\ LoginGetByEmail(r)
    \/ \E r \in Requests : LoginSaveRefreshToken(r)
    \/ \E r \in Requests : Quiescent /\ RefreshGet(r)
    \/ \E r \in Requests : RefreshRevoke(r)
    \/ \E r \in Requests : Quiescent /\ RequestPasswordReset(r)
    \/ \E r \in Requests : Quiescent /\ ResetGetById(r)
    \/ \E r \in Requests : ResetUpdate(r)
    \/ \E r \in Requests : Respond(r)

SpecSession == Init /\ [][NextSession]_vars

\* ================================================================= claims
IsRefresh(r) == req[r].op = "refresh"
Done(r) == req[r].pc = "done"
Succeeded(r) == Done(r) /\ req[r].result.ok
Unauthorized == Throw(HttpError("UnauthorizedError", 401, "Unauthorized"))

\* r takes the step that leaves position pc
Leaves(r, pc) == req[r].pc = pc /\ req'[r].pc # pc

\* a request for operation op arrives at r and takes its first step
Arrives(r, op) == req[r].pc = "idle" /\ req'[r].op = op

\* r takes the last step of a refreshAccessToken that returns a token pair
RefreshReturns(r) ==
    Leaves(r, "refresh_revoke") /\ req'[r].pc = "done" /\ req'[r].result.ok

\* C1: every refreshAccessToken call whose token resolves to a revoked
\* record fails with Unauthorized and returns no tokens: a call that read a
\* revoked record is finished with the Unauthorized error, and no call is
\* past the checks or has returned tokens with a revoked record in hand.
C1_RevokedNeverAccepted ==
    \A r \in Requests :
        (/\ IsRefresh(r)
         /\ "storedToken" \in DOMAIN req[r]
         /\ req[r].storedToken # NULL
         /\ req[r].storedToken.revoked)
        => (Done(r) /\ req[r].result = Unauthorized)

C1_Witness ==
    \E r \in Requests :
        /\ IsRefresh(r) /\ Done(r)
        /\ req[r].storedToken # NULL
        /\ req[r].storedToken.revoked
        /\ req[r].result = Unauthorized

\* C2: when a refreshAccessToken for a token of user U returns its pair,
\* every record of U that was stored is revoked (the used one included) and
\* a refresh with any of them is rejected as unauthorized.
C2_SuccessfulRefreshRevokesAll ==
    [][\A r \in Requests :
          RefreshReturns(r) =>
             \A t \in tokens :
                t.userId = req[r].storedToken.userId =>
                   /\ \E t2 \in tokens' : t2.id = t.id /\ t2.revoked
                   /\ refreshVerdict(getRefreshTokenWithUser(t.token))'
                         = "unauthorized"]_vars

\* a refresh has returned and its user has two records, both revoked
C2_Witness ==
    \E r \in Requests :
        /\ IsRefresh(r) /\ Succeeded(r)
        /\ Cardinality({t \in tokens :
                           t.userId = req[r].storedToken.userId}) >= 2
        /\ \A t \in tokens :
              t.userId = req[r].storedToken.userId => t.revoked

\* C3: a refresh token is single-use: no two refreshAccessToken calls
\* succeed with the same token, whatever the interleaving.
C3_RefreshTokenSingleUse ==
    \A r1, r2 \in Requests :
        (/\ r1 # r2
         /\ IsRefresh(r1) /\ Succeeded(r1)
         /\ IsRefresh(r2) /\ Succeeded(r2))
        => req[r1].data # req[r2].data

\* C4: the refresh token a successful refreshAccessToken returns is stored
\* as an unrevoked, unexpired record of the same user.
C4_RotationPersistsNewToken ==
    [][\A r \in Requests :
          RefreshReturns(r) =>
             \E t \in tokens' :
                /\ t.token = req'[r].result.value.refreshToken
                /\ t.userId = req[r].storedToken.userId
                /\ ~t.revoked
                /\ ~(t.expiresAt < now')]_vars

\* the stored record of the token a refreshAccessToken call presents: before
\* the first step of the call that arrives at r, and as held by the call at r
Arriving(r) == getRefreshTokenWithUser(req'[r].data)
Presented(r) == getRefreshTokenWithUser(req[r].data)
Expired(t) == t.expiresAt < now
EmailStored(email) == \E u \in users : u.email = email

\* C5 (as stated): for every stored record whose expiresAt is in the past,
\* refreshAccessToken with its token fails with Unauthorized and the record
\* is no longer retrievable afterwards.
C5_ExpiredRejectedAndRemoved ==
    [][\A r \in Requests :
          /\ (/\ Arrives(r, "refresh")
              /\ Arriving(r) # NULL
              /\ Expired(Arriving(r)))
             => \/ req'[r].pc = "refresh_delete"
                \/ /\ req'[r].pc = "done"
                   /\ req'[r].result = Unauthorized
                   /\ Presented(r)' = NULL
          /\ Leaves(r, "refresh_delete")
             => /\ req'[r].pc = "done"
                /\ req'[r].result = Unauthorized
                /\ Presented(r)' = NULL]_vars

\* C5 (amended): for every stored record that is not revoked and whose
\* expiresAt is in the past, refreshAccessToken with its token goes on to
\* delete the record and returns no tokens; once it has completed the record
\* is not retrievable and a further refresh with the token is rejected as
\* unauthorized; the call fails with Unauthorized when its delete found the
\* record and with the error of the delete when a concurrent call had
\* deleted it first.  A revoked record whose expiresAt is in the past is
\* rejected with Unauthorized and stays stored.
C5_UnrevokedExpiredRejectedAndRemoved ==
    [][\A r \in Requests :
          /\ (/\ Arrives(r, "refresh")
              /\ Arriving(r) # NULL
              /\ Expired(Arriving(r)))
             => IF Arriving(r).revoked
                THEN /\ req'[r].pc = "done"
                     /\ req'[r].result = Unauthorized
                     /\ tokens' = tokens
                ELSE /\ req'[r].pc = "refresh_delete"
                     /\ tokens' = tokens
          /\ Leaves(r, "refresh_delete")
             => /\ req'[r].pc = "done"
                /\ req'[r].result =
                      IF \E t \in tokens : t.id = req[r].storedToken.id
                      THEN Unauthorized
                      ELSE Throw(PrismaError("P2025"))
                /\ tokens' = {t \in tokens : t.id # req[r].storedToken.id}
                /\ Presented(r)' = NULL
                /\ refreshVerdict(Presented(r))' = "unauthorized"]_vars

\* a call was rejected for an unrevoked expired record, which is gone
C5_Witness ==
    \E r \in Requests :
        /\ IsRefresh(r) /\ Done(r)
        /\ req[r].result = Unauthorized
        /\ req[r].storedToken # NULL
        /\ ~req[r].storedToken.revoked
        /\ Expired(req[r].storedToken)
        /\ Presented(r) = NULL

C7_SignUpDuplicateEmail ==
    [][\A r \in Requests :
          (Arrives(r, "signUp") /\ EmailStored(req'[r].data.email))
          => /\ req'[r].pc = "done"
             /\ req'[r].result =
                   Throw(HttpError("BadRequestError", 400,
                                   "Email is already in use"))
             /\ "hashedPassword" \notin DOMAIN req'[r]
             /\ users' = users
             /\ tokens' = tokens]_vars

C7_Witness ==
    \E r \in Requests :
        /\ req[r].op = "signUp" /\ Done(r)
        /\ ~req[r].result.ok
        /\ req[r].result.error.name = "BadRequestError"
        /\ EmailStored(req[r].data.email)

\* C8: signUp for an email that is not stored writes once: the lookup
\* writes nothing and the create adds exactly one user, whose password is
\* the hasher's output for the supplied password and not the plaintext,
\* whose record has no confirmPassword, and which is what signUp returns.
C8_SignUpCreatesHashedUser ==
    [][\A r \in Requests :
          /\ (Arrives(r, "signUp")
              /\ ~EmailStored(req'[r].data.email))
             => /\ req'[r].pc = "signUp_create"
                /\ users' = users
                /\ tokens' = tokens
          /\ (Leaves(r, "signUp_create") /\ ~EmailStored(req[r].data.email))
             => \E row \in users' :
                   /\ row \notin users
                   /\ users' = users \cup {row}
                   /\ tokens' = tokens
                   /\ DOMAIN row = {"id", "email", "name", "password"}
                   /\ row.email = req[r].data.email
                   /\ row.name = req[r].data.name
                   /\ row.password = Hash(req[r].data.password)
                   /\ row.password = req'[r].hashedPassword
                   /\ Compare(req[r].data.password, row.password)
                   /\ row.password # req[r].data.password
                   /\ \A u \in users : u.id # row.id
                   /\ req'[r].pc = "done"
                   /\ req'[r].result = Return(row)]_vars

C8_Witness ==
    \E r \in Requests :
        /\ req[r].op = "signUp" /\ Succeeded(r)
        /\ req[r].result.value \in users
        /\ Compare(req[r].data.password, req[r].result.value.password)

\* C9: no two stored users share an email, and of two signUp requests for
\* the same email that are both past the getByEmail check at most one
\* creates a user.
C9_EmailUnique ==
    /\ \A u1, u2 \in users : u1.email = u2.email => u1 = u2
    /\ \A r1, r2 \in Requests :
          (/\ r1 # r2
           /\ req[r1].op = "signUp" /\ Succeeded(r1)
           /\ req[r2].op = "signUp" /\ Succeeded(r2))
          => req[r1].data.email # req[r2].data.email

\* two signUp requests for one email both passed the check; one created the
\* user and the create of the other was refused
C9_Witness ==
    \E r1, r2 \in Requests :
        /\ req[r1].op = "signUp" /\ Succeeded(r1)
        /\ req[r2].op = "signUp" /\ Done(r2) /\ ~req[r2].result.ok
        /\ "hashedPassword" \in DOMAIN req[r2]
        /\ req[r1].data.email = req[r2].data.email

\* C10: login with the email of a stored user and the matching password
\* returns {accessToken, refreshToken, user}: the access token is signed
\* over {id: user.id} with the server secret and the default lifetime and
\* user is the stored record without its password.
C10_LoginReturns ==
    [][\A r \in Requests :
          /\ (/\ Arrives(r, "login")
              /\ \E u \in users :
                    /\ u.email = req'[r].data.email
                    /\ Compare(req'[r].data.password, u.password))
             => req'[r].pc = "login_saveRefreshToken"
          /\ Leaves(r, "login_saveRefreshToken")
             => \E u \in users :
                   LET value == req'[r].result.value
                   IN  /\ u.email = req[r].data.email
                       /\ req'[r].pc = "done"
                       /\ req'[r].result.ok
                       /\ DOMAIN value = {"accessToken", "refreshToken", "user"}
                       /\ DOMAIN value.user = {"id", "email", "name"}
                       /\ value.user.id = u.id
                       /\ value.user.email = u.email
                       /\ value.user.name = u.name
                       /\ value.accessToken.payload = [id |-> u.id]
                       /\ value.accessToken.secret = JWT_SECRET
                       /\ value.accessToken.exp
                             = value.accessToken.iat + JWT_EXPIRE_IN]_vars

C10_Witness ==
    \E r \in Requests :
        /\ req[r].op = "login" /\ Succeeded(r)
        /\ req[r].result.value.user.email = req[r].data.email
        /\ req[r].result.value.accessToken.payload
              = [id |-> req[r].result.value.user.id]

\* C11: login fails alike for an email nobody has and for a wrong password
\* of a stored user: the call ends at once with the same UnauthorizedError
\* (401, 'Unauthorized'), the same as any other failing pair of inputs
\* would get in that state, and nothing is written.
LoginFails(data) ==
    \/ getByEmail(data.email) = NULL
    \/ ~Compare(data.password, getByEmail(data.email).password)

C11_LoginFailuresAlike ==
    [][\A r \in Requests :
          (Arrives(r, "login") /\ LoginFails(req'[r].data))
          => /\ req'[r].pc = "done"
             /\ req'[r].result = Unauthorized
             /\ DOMAIN req'[r] = {"op", "pc", "data", "result"}
             /\ \A email \in Emails, password \in Passwords :
                   LET other == [email |-> email, password |-> password]
                   IN  LoginFails(other)
                       => loginCheck(other).result = req'[r].result
             /\ users' = users /\ tokens' = tokens /\ uuid' = uuid]_vars

\* a login with a wrong password for a stored user was refused while the
\* other email is one nobody has
C11_Witness ==
    \E r \in Requests :
        /\ req[r].op = "login" /\ Done(r)
        /\ req[r].result = Unauthorized
        /\ EmailStored(req[r].data.email)
        /\ \E email \in Emails : ~EmailStored(email)

\* C12: a login that succeeds writes once: the lookup step writes nothing,
\* and the step that returns adds exactly one refresh-token record, which
\* belongs to the user, is not revoked, expires REFRESH_EXPIRES after the
\* time of the write and holds the token string that login returns.
C12_LoginPersistsRefreshToken ==
    [][\A r \in Requests :
          /\ Arrives(r, "login") => tokens' = tokens
          /\ Leaves(r, "login_saveRefreshToken")
             => \E row \in tokens' :
                   /\ row \notin tokens
                   /\ tokens' = tokens \cup {row}
                   /\ \A t \in tokens : t.id # row.id /\ t.token # row.token
                   /\ row.userId = req[r].user.id
                   /\ row.userId = req'[r].result.value.user.id
                   /\ row.revoked = FALSE
                   /\ row.createdAt = now
                   /\ row.expiresAt = now + REFRESH_EXPIRES
                   /\ Succeeded(r)'
                   /\ row.token = req'[r].result.value.refreshToken]_vars

\* a login has returned and the record of its refresh token is stored for
\* its user, unrevoked
C12_Witness ==
    \E r \in Requests :
        /\ req[r].op = "login" /\ Succeeded(r)
        /\ \E row \in tokens :
              /\ row.token = req[r].result.value.refreshToken
              /\ row.userId = req[r].result.value.user.id
              /\ ~row.revoked
              /\ row.expiresAt = row.createdAt + REFRESH_EXPIRES

\* C13: a login that fails, because the email is unknown, the password is
\* wrong, or getByEmail, the hash comparer, the encrypter, the generator or
\* saveRefreshToken threw, ends with exactly the error that was raised and
\* with no tokens, and it leaves no refresh-token record behind: no step of
\* it wrote one.
LoginFailed(r) ==
    /\ req[r].pc # "done"
    /\ req'[r].op = "login" /\ req'[r].pc = "done"
    /\ ~req'[r].result.ok

C13_LoginFailureUnmodified ==
    [][\A r \in Requests :
          /\ Arrives(r, "login") => tokens' = tokens
          /\ LoginFailed(r)
             => /\ DOMAIN req'[r].result = {"ok", "error"}
                /\ IF "thrown" \in DOMAIN req'[r]
                   THEN req'[r].result.error = req'[r].thrown
                   ELSE /\ LoginFails(req'[r].data)
                        /\ req'[r].result = Unauthorized
                /\ tokens' = tokens
                /\ users' = users
                /\ req[r].pc = "login_saveRefreshToken"
                   => \A t \in tokens' : t.token # req[r].refreshToken]_vars

\* saveRefreshToken threw after the tokens were made: login has ended with
\* that error and the generated token has no record
C13_Witness ==
    \E r \in Requests :
        /\ req[r].op = "login" /\ Done(r)
        /\ "thrown" \in DOMAIN req[r]
        /\ req[r].thrown = Failure("saveRefreshToken")
        /\ req[r].result = Throw(req[r].thrown)
        /\ \A t \in tokens : t.token # req[r].refreshToken

\* ------------------------------------------------- claims on password reset
InvalidToken == Throw(HttpError("UnauthorizedError", 401, "Invalid token"))
UserNotFound == Throw(HttpError("NotFoundError", 404, "User not found"))
\* the password of the user a token names is no longer the one the token
\* was signed with
Stale(token) == token.secret # resetSecret(getById(token.payload.id))

C15_ResetOnlyWithVerifiedToken ==
    [][/\ \A u \in users, v \in users' :
             (v.id = u.id /\ v # u)
             => \E r \in Requests :
                   /\ Leaves(r, "reset_update")
                   /\ req[r].user.id = u.id
                   /\ decode(req[r].data.token).id = u.id
                   /\ v = [u EXCEPT !.password = v.password]
       /\ \A r \in Requests :
             req'[r].pc = "reset_update"
             => \/ req[r].pc = "reset_update" /\ req'[r] = req[r]
                \/ LET token == req'[r].data.token
                       user  == getById(idOf(decode(token)))
                   IN  /\ Arrives(r, "resetPassword")
                       /\ user # NULL
                       /\ req'[r].user = user
                       /\ token.signed = [payload |-> token.payload,
                                          exp |-> token.exp]
                       /\ token.secret = resetSecret(user)
                       /\ now < token.exp
                       /\ decrypt(token, resetSecret(user))]_vars

\* a resetPassword call has returned and the password of the user its token
\* names is no longer the one the token was verified against
C15_Witness ==
    \E r \in Requests :
        /\ req[r].op = "resetPassword" /\ Succeeded(r)
        /\ req[r].data.token \in Issued
        /\ getById(req[r].user.id).password # req[r].user.password

\* C16: a resetPassword call whose token names a stored user but does not
\* verify, because the signature was made with another secret, because the
\* claims are not the ones that were signed, or because exp has passed,
\* ends at once with UnauthorizedError 'Invalid token', whichever it was;
\* it does not go on to the hasher and the update, and no user changes.
BadSignature(token, user) == token.secret # resetSecret(user)
TamperedClaims(token) ==
    token.signed # [payload |-> token.payload, exp |-> token.exp]
ExpiredToken(token) == now >= token.exp

C16_VerificationFailureUniform ==
    [][\A r \in Requests :
          LET token == req'[r].data.token
              user  == getById(idOf(decode(token)))
          IN  (/\ Arrives(r, "resetPassword")
               /\ user # NULL
               /\ \/ BadSignature(token, user)
                  \/ TamperedClaims(token)
                  \/ ExpiredToken(token))
              => /\ req'[r] = Finish("resetPassword", req'[r].data,
                                     InvalidToken)
                 /\ users' = users
                 /\ Held' = Held]_vars

\* a token that was issued for the password still stored, with its claims
\* untouched, is refused because it has expired
C16_Witness ==
    \E r \in Requests :
        /\ req[r].op = "resetPassword" /\ Done(r)
        /\ req[r].result = InvalidToken
        /\ req[r].data.token \in Issued
        /\ ~Stale(req[r].data.token)
        /\ ExpiredToken(req[r].data.token)

\* C17: resetPassword checks in a fixed order.  A token that decodes to
\* nothing or to a payload without an id is refused with UnauthorizedError
\* 'Invalid token' whatever is stored; a token whose id is the id of no
\* user is refused with NotFoundError 'User not found' even though its
\* signature would not verify; in both cases the call ends there and no
\* user changes.
C17_ResetCheckOrder ==
    [][\A r \in Requests :
          Arrives(r, "resetPassword")
          => LET token == req'[r].data.token
                 id    == idOf(decode(token))
             IN  /\ id = 0
                    => /\ req'[r] = Finish("resetPassword", req'[r].data,
                                           InvalidToken)
                       /\ users' = users
                 /\ (id # 0 /\ \A u \in users : u.id # id)
                    => /\ req'[r] = Finish("resetPassword", req'[r].data,
                                           UserNotFound)
                       /\ users' = users]_vars

\* a token signed with a secret of the caller's own that names no stored
\* user was answered with NotFoundError while a user is stored
C17_Witness ==
    \E r \in Requests :
        /\ req[r].op = "resetPassword" /\ Done(r)
        /\ req[r].data.token \in Forged
        /\ users # {}
        /\ \A u \in users : u.id # req[r].data.token.payload.id
        /\ req[r].result = UserNotFound

\* C18: the round trip works.  requestPasswordReset for a stored user logs
\* a link whose token names the user, is signed under the user's stored
\* hash and lives RESET_PASSWORD_JWT_EXPIRE_IN; a resetPassword call that
\* presents such a token before it expires and before the password changes
\* passes the checks; and its update step returns normally, leaves the
\* user with the hasher's output for the new password and leaves every
\* other user as it was.
C18_ResetRoundTrip ==
    [][\A r \in Requests :
          /\ (Arrives(r, "requestPasswordReset")
              /\ EmailStored(req'[r].data))
             => \E link \in outbox' :
                   /\ outbox' = outbox \cup {link}
                   /\ req'[r].result = Return(NULL)
                   /\ link.token.payload
                         = [email |-> req'[r].data,
                            id |-> getByEmail(req'[r].data).id]
                   /\ link.token.exp = now + RESET_PASSWORD_JWT_EXPIRE_IN
                   /\ ~Stale(link.token)
                   /\ decrypt(link.token,
                              resetSecret(getByEmail(req'[r].data)))
          /\ (/\ Arrives(r, "resetPassword")
              /\ req'[r].data.token \in Issued
              /\ ~Stale(req'[r].data.token)
              /\ now < req'[r].data.token.exp)
             => /\ req'[r].pc = "reset_update"
                /\ req'[r].user = getById(req'[r].data.token.payload.id)
          /\ Leaves(r, "reset_update")
             => /\ req'[r].pc = "done"
                /\ req'[r].result = Return(NULL)
                /\ \E v \in users' :
                      /\ v.id = req[r].user.id
                      /\ v.email = req[r].user.email
                      /\ v.password = Hash(req[r].data.newPassword)
                      /\ v.password # req[r].data.newPassword
                      /\ Compare(req[r].data.newPassword, v.password)
                /\ \A u \in users : u.id # req[r].user.id => u \in users'
                /\ Cardinality(users') = Cardinality(users)]_vars

\* a resetPassword call with an issued token has returned; the user it
\* names now has a digest of the new password, and the other user is stored
\* with the password of its signUp
C18_Witness ==
    \E r \in Requests :
        /\ req[r].op = "resetPassword" /\ Succeeded(r)
        /\ req[r].data.token \in Issued
        /\ Compare(req[r].data.newPassword,
                   getById(req[r].user.id).password)
        /\ \E u \in users :
              /\ u.id # req[r].user.id
              /\ \E salt \in Salts : u.password = HashWith(salt, "p1")

\* C19: requestPasswordReset for an email nobody has ends with
\* NotFoundError 'User not found'; no token is made, no link is logged and
\* nothing that is stored changes.
C19_ResetRequestUnknownEmail ==
    [][\A r \in Requests :
          (Arrives(r, "requestPasswordReset") /\ ~EmailStored(req'[r].data))
          => /\ req'[r] = Finish("requestPasswordReset", req'[r].data,
                                 UserNotFound)
             /\ outbox' = outbox
             /\ users' = users
             /\ tokens' = tokens]_vars

\* a request for an email nobody has was answered with NotFoundError while
\* another email is stored
C19_Witness ==
    \E r \in Requests :
        /\ req[r].op = "requestPasswordReset" /\ Done(r)
        /\ ~EmailStored(req[r].data)
        /\ users # {}
        /\ req[r].result = UserNotFound

C22_RevokedMonotonic ==
    [][\A t \in tokens : t.revoked =>
          \A s \in tokens' : s.id = t.id => s.revoked]_vars

\* a record revoked by one refresh has gone through the revocation of a second
\* refresh of the same user and is still revoked
C22_Witness ==
    \E r \in Requests, q \in Requests :
        /\ r # q
        /\ IsRefresh(r) /\ Succeeded(r)
        /\ IsRefresh(q) /\ Succeeded(q)
        /\ req[r].storedToken.id = req[q].storedToken.id
        /\ \E t \in tokens : t.id = req[r].storedToken.id /\ t.revoked

\* a step of the refreshAccessToken call in slot r: its arrival or one of its
\* later persistence calls
RefreshStep(r) ==
    \/ Arrives(r, "refresh")
    \/ IsRefresh(r) /\ ~Done(r) /\ req'[r] # req[r]

\* C28: revocation is scoped to the owner: every step of a refreshAccessToken
\* call presenting a token owned by user U leaves every refresh-token record
\* owned by another user as it was (still present, same revoked flag, same
\* expiresAt and every other field).
C28_RevocationScopedToOwner ==
    [][\A r \in Requests :
          RefreshStep(r) /\ req'[r].storedToken # NULL =>
              \A t \in tokens :
                  t.userId # req'[r].storedToken.userId => t \in tokens']_vars

\* a refresh has revoked its owner's record while another user holds a record,
\* which is still unrevoked
C28_Witness ==
    \E r \in Requests :
        /\ IsRefresh(r) /\ Succeeded(r)
        /\ \E t \in tokens : t.userId = req[r].storedToken.userId /\ t.revoked
        /\ \E t \in tokens : t.userId # req[r].storedToken.userId /\ ~t.revoked

\* refreshAccessToken accepts the token: its record is stored, unrevoked and
\* unexpired
Accepted(token) == refreshVerdict(getRefreshTokenWithUser(token)) = "valid"

\* a step of the login call in slot r
LoginStep(r) ==
    \/ Arrives(r, "login")
    \/ req[r].op = "login" /\ ~Done(r) /\ req'[r] # req[r]

\* C29: login never invalidates existing sessions: every step of a login
\* leaves every stored refresh-token record unchanged, and a successful login
\* adds exactly one record, owned by the user, unrevoked, holding the returned
\* refresh token and accepted by refreshAccessToken; every token that
\* refreshAccessToken accepted before the login it still accepts afterwards,
\* so n logins with no refresh in between leave n accepted records.
C29_LoginKeepsSessions ==
    [][\A r \in Requests :
          LoginStep(r) =>
              /\ tokens \subseteq tokens'
              /\ \A token \in 1..uuid : Accepted(token) => Accepted(token)'
              /\ IF Succeeded(r)'
                 THEN /\ Cardinality(tokens' \ tokens) = 1
                      /\ \A t \in tokens' \ tokens :
                            /\ t.userId = req[r].user.id
                            /\ ~t.revoked
                            /\ t.token = req'[r].result.value.refreshToken
                            /\ Accepted(t.token)'
                 ELSE tokens' = tokens]_vars

\* after the second successful login of a user with no refresh in between the
\* user holds two unrevoked records and refreshAccessToken accepts both
C29_Witness ==
    \E r \in Requests :
        /\ req[r].op = "login" /\ Succeeded(r)
        /\ \E t1 \in tokens, t2 \in tokens :
              /\ t1.id # t2.id
              /\ t1.userId = t2.userId
              /\ t2.token = req[r].result.value.refreshToken
              /\ ~t1.revoked /\ ~t2.revoked
              /\ Accepted(t1.token) /\ Accepted(t2.token)

\* C27: every refreshAccessToken call that presents an expired, unrevoked
\* token (the calls that fail although the record they read was stored and
\* unrevoked: the ones that went on to deleteRefreshToken) fails with Unauthorized
\* and with no other error, in every interleaving, two concurrent calls with
\* the same expired token included.
C27_ExpiredAlwaysUnauthorized ==
    \A r \in Requests :
        /\ IsRefresh(r) /\ Done(r) /\ ~req[r].result.ok
        /\ req[r].storedToken # NULL
        /\ ~req[r].storedToken.revoked
        => req[r].result = Unauthorized

\* C26: a reset token authorizes at most one password change: no two
\* resetPassword calls presenting the same token both complete successfully,
\* also when both verify the token before either writes the new password.
C26_ResetTokenSingleUse ==
    \A r \in Requests, q \in Requests :
        /\ r # q
        /\ req[r].op = "resetPassword" /\ Succeeded(r)
        /\ req[q].op = "resetPassword" /\ Succeeded(q)
        => req[r].data.token # req[q].data.token

\* the step in which the resetPassword call in slot r writes the new password
ResetWrites(r) == Leaves(r, "reset_update") /\ Succeeded(r)'

\* C21: a stored user's password changes only through a successful
\* resetPassword: every step of signUp, login, refreshAccessToken and
\* requestPasswordReset, successful or failed, leaves the id, email, name and
\* password of every already-stored user unchanged, and the step of
\* resetPassword that writes changes the password of its own user only.
C21_PasswordChangesOnlyByReset ==
    [][\A u \in users :
          \/ u \in users'
          \/ \E r \in Requests :
                /\ ResetWrites(r)
                /\ req[r].user.id = u.id
                /\ \E v \in users' :
                      v.id = u.id /\ v.email = u.email /\ v.name = u.name]_vars

\* two users are stored, one of them with a password that resetPassword wrote
\* after their reset link was issued, and a refresh has revoked a session
C21_Witness ==
    /\ \E u \in users, v \in users :
          /\ u.id < v.id
          /\ \E link \in outbox :
                /\ link.token.payload.id = u.id
                /\ link.token.secret # resetSecret(u)
    /\ \E t \in tokens : t.revoked

\* C30: a successful resetPassword touches no refresh-token record: the step
\* that writes the new password leaves the table of refresh tokens as it was,
\* and every token that refreshAccessToken accepted before the password change
\* (record stored, unrevoked, unexpired) it accepts afterwards.
C30_ResetKeepsSessions ==
    [][\A r \in Requests :
          ResetWrites(r) =>
              /\ tokens' = tokens
              /\ \A token \in 1..uuid : Accepted(token) => Accepted(token)']_vars

\* a resetPassword has just changed the password of a user who holds an
\* unrevoked, unexpired session from before, which refreshAccessToken accepts
C30_Witness ==
    \E r \in Requests :
        /\ req[r].op = "resetPassword" /\ Succeeded(r)
        /\ getById(req[r].user.id).password # req[r].user.password
        /\ \E t \in tokens :
              /\ t.userId = req[r].user.id
              /\ ~t.revoked /\ ~Expired(t)
              /\ Accepted(t.token)

\* C23: no compensating rollback in refresh: when the encrypter or the
\* refresh-token generator fails after revokeAllUserRefreshTokens has
\* committed, refreshAccessToken delivers that failure and no tokens, every
\* record of the user is revoked, and refreshAccessToken accepts none of the
\* user's tokens.
C23_RefreshFailureKeepsRevocation ==
    [][\A r \in Requests :
          Leaves(r, "refresh_revoke") /\ ~req'[r].result.ok =>
              LET owner == req[r].storedToken.userId
              IN  /\ \E thrower \in {"encrypter", "refreshTokenGenerator"} :
                        req'[r].result =
                            [ok |-> FALSE,
                             error |-> [name |-> "Error", thrower |-> thrower]]
                  /\ \A t \in tokens' : t.userId = owner => t.revoked
                  /\ \A t \in tokens : t.userId = owner =>
                        \E s \in tokens' : s.id = t.id
                  /\ \A t \in tokens' :
                        t.userId = owner => ~Accepted(t.token)']_vars

\* a refresh has failed in the encrypter or the generator, and the user's two
\* sessions, the presented one and another, are both revoked
C23_Witness ==
    \E r \in Requests :
        /\ IsRefresh(r) /\ Done(r) /\ ~req[r].result.ok
        /\ req[r].result.error.name = "Error"
        /\ \E t1 \in tokens, t2 \in tokens :
              /\ t1.id = req[r].storedToken.id
              /\ t2.id # t1.id
              /\ t2.userId = t1.userId
              /\ t1.revoked /\ t2.revoked

\* a handler has ended
HandlerEnded(r) == req[r].pc = "handled"

\* C24: AuthController.refreshAccessToken with a body that has no refreshToken
\* or an empty one passes a BadRequest error with the message 'Refresh token
\* not provided' to next, sends no response and never invokes
\* AuthService.refreshAccessToken: the handlers that ended without a call are
\* the ones with such a body and have done exactly that, and no call of the
\* service ever holds the empty token.
C24_RefreshWithoutTokenRejected ==
    \A r \in Requests :
        IsRefresh(r) =>
            IF HandlerEnded(r) /\ req[r].calls = 0
            THEN /\ \/ "refreshToken" \notin DOMAIN req[r].data
                    \/ req[r].data.refreshToken = EmptyToken
                 /\ req[r].sent = <<>>
                 /\ req[r].next =
                        <<[name |-> "BadRequestError", statusCode |-> 400,
                           message |-> "Refresh token not provided"]>>
            ELSE req[r].data # EmptyToken

\* the handler has ended on a body whose refreshToken is the empty string
C24_Witness ==
    \E r \in Requests :
        /\ IsRefresh(r) /\ HandlerEnded(r) /\ req[r].calls = 0
        /\ "refreshToken" \in DOMAIN req[r].data
        /\ req[r].data.refreshToken = EmptyToken
        /\ Len(req[r].next) = 1

\* the handler has ended on a body without a refreshToken
C24_WitnessNoField ==
    \E r \in Requests :
        /\ IsRefresh(r) /\ HandlerEnded(r) /\ req[r].calls = 0
        /\ "refreshToken" \notin DOMAIN req[r].data
        /\ Len(req[r].next) = 1

C25_WitnessComparer ==
    \E r \in Requests :
        /\ HandlerEnded(r) /\ req[r].op = "signUp" /\ req[r].calls = 0
        /\ users # {}

\* a handler has ended by sending its success response
C25_WitnessSuccess ==
    \E r \in Requests :
        /\ HandlerEnded(r) /\ req[r].op = "resetPassword"
        /\ Len(req[r].sent) = 1 /\ req[r].sent[1].status = 200

\* the token matches no record or matches a revoked record
NoUsableRecord(token) ==
    \A t \in tokens : t.token = token => t.revoked

\* C31: a refreshAccessToken call whose token matches no record or matches a
\* revoked record is rejected with Unauthorized in its first step and changes
\* no persisted state: no record is deleted (also when the revoked record is
\* expired), no record is revoked and no token is issued.
C31_RejectedRefreshChangesNothing ==
    [][\A r \in Requests :
          Arrives(r, "refresh") /\ NoUsableRecord(req'[r].data) =>
              /\ Done(r)'
              /\ req'[r].result = Unauthorized
              /\ tokens' = tokens
              /\ users' = users
              /\ uuid' = uuid
              /\ nextTokenId' = nextTokenId
              /\ outbox' = outbox]_vars

\* a refresh has been rejected on a record that is revoked and expired, and
\* the record is still stored
C31_Witness ==
    \E r \in Requests :
        /\ IsRefresh(r) /\ Done(r) /\ req[r].result = Unauthorized
        /\ req[r].storedToken # NULL
        /\ req[r].storedToken.revoked
        /\ Expired(req[r].storedToken)
        /\ \E t \in tokens : t.id = req[r].storedToken.id /\ t.revoked

\* C32: token kinds are not interchangeable: an access token issued by login
\* or refreshAccessToken (payload {id}, signed with the server secret alone)
\* presented to resetPassword is rejected with Unauthorized in the call's
\* first step and changes no password.
C32_AccessTokenNoResetToken ==
    [][\A r \in Requests :
          Arrives(r, "resetPassword") /\ req'[r].data.token \in AccessTokens =>
              /\ Done(r)'
              /\ req'[r].result = InvalidToken
              /\ users' = users]_vars

\* resetPassword has rejected the unexpired access token that a login of a
\* stored user returned
C32_Witness ==
    \E r \in Requests :
        /\ req[r].op = "resetPassword" /\ Done(r)
        /\ req[r].result = InvalidToken
        /\ \E t \in tokens :
              /\ req[r].data.token = accessTokenAt(t.userId, t.createdAt)
              /\ req[r].data.token = encrypt([id |-> t.userId], 0, "")
              /\ getById(t.userId) # NULL
        /\ now < req[r].data.token.exp

\* the request in slot r has started and has not completed
InFlight(r) == req[r].pc \notin {"idle", "done"}

\* C33: every started signUp, login, refreshAccessToken, requestPasswordReset
\* and resetPassword request eventually completes with a value or a failure,
\* when every collaborator call completes and the request that awaited it is
\* resumed; and no request waits on a lock or on another request: the next
\* step of a request in flight is enabled whatever the other requests do.
C33_EveryRequestCompletes ==
    /\ \A r \in Requests : [](InFlight(r) => ENABLED Continue(r))
    /\ \A r \in Requests : InFlight(r) ~> Done(r)

\* two requests were in flight at once on one expired record: one has
\* completed and deleted it, the other is still to make its delete
C33_Witness ==
    \E r \in Requests, q \in Requests :
        /\ Done(r) /\ IsRefresh(r)
        /\ InFlight(q) /\ req[q].pc = "refresh_delete"
        /\ req[q].storedToken.id = req[r].storedToken.id
        /\ \A t \in tokens : t.id # req[q].storedToken.id

====
